---- MODULE Spec2Model ----
\* A Merkle Search Tree (mast): an ordered key/value map whose nodes are
\* path-copied on every mutation and persisted by content hash.
\* Keys are the integers 1..MaxKey, values the integers 1..MaxVal.
EXTENDS Integers, Sequences, FiniteSets, TLC

\* ---------------------------------------------------------------- bounds
MaxKey == 4
MaxVal == 1
MaxFlush == 1
OptBranchFactor == 2
MaxBranchFactor == 4

Keys == 1..MaxKey
Values == 1..MaxVal

\* The value computed by a call is bound once and handed to the code that
\* follows it, as `x, err := f(...)` does.
Bind(v, F(_)) == CHOOSE y \in {F(w) : w \in {v}} : TRUE

\* ------------------------------------------------------- program constants
DefaultBranchFactor == 16

\* The nil interface value stored for a value when no ValuesLike prototype
\* is configured.
NilValue == 0 - 1

\* ------------------------------------------------------------------ links
\* A link is nil, a content hash, or an inline (not yet persisted) node.
NilLink == [t |-> "nil"]

contentHash(id) == [t |-> "hash", id |-> id]

InlineLink(node) == [t |-> "node", n |-> node]

mastNode(keys, vals, links) == [Key |-> keys, Value |-> vals, Link |-> links]

emptyNodePointer == mastNode(<<>>, <<>>, <<NilLink>>)

isEmpty(node) == Len(node.Link) = 1 /\ node.Link[1] = NilLink

\* Mast.store: an in-memory node is its own link; an empty node is refused.
store(node) ==
    IF Len(node.Link) = 1 /\ node.Link[1] = NilLink
    THEN [st |-> "error", link |-> NilLink]
    ELSE [st |-> "ok", link |-> InlineLink(node)]

\* ------------------------------------------------------- layer and order
\* Stand-in for the digest of the serialized key.
KeyHash(k) == ((k * 7) + 5) % 16

RECURSIVE TrailingZeroDigits(_, _)
TrailingZeroDigits(h, bf) ==
    IF h = 0 \/ h % bf # 0 THEN 0 ELSE 1 + TrailingZeroDigits(h \div bf, bf)

\* defaultLayer: number of trailing zero digits of the digest in base bf.
defaultLayer(k, bf) == TrailingZeroDigits(KeyHash(k), bf)

\* defaultOrder
keyOrder(a, b) == IF a < b THEN 0 - 1 ELSE IF a > b THEN 1 ELSE 0

uint8min(a, b) == IF a < b THEN a ELSE b

\* ------------------------------------------------------------ codec
\* Marshal / Unmarshal of a key or value: the decimal JSON text.
defaultMarshal(v) == IF v = NilValue THEN "null" ELSE ToString(v)

CodecDomain == 0..(MaxKey + MaxVal + 2)

\* Unmarshal into an int prototype: JSON null leaves the zero value.
defaultUnmarshal(s) ==
    IF s = "null" THEN [st |-> "ok", v |-> 0]
    ELSE IF \E n \in CodecDomain : ToString(n) = s
         THEN [st |-> "ok", v |-> CHOOSE n \in CodecDomain : ToString(n) = s]
         ELSE [st |-> "error", v |-> 0]

\* ------------------------------------------------------------ load
\* env: [store: set of persisted ids, down: Persist.Load fails,
\*       zeroValue: "nil" | "int"].
\* A persisted id is the one-element tuple holding the serialized node
\* (stringNodeT), the empty tuple being the empty string.
RECURSIVE DecodeEntries(_, _, _)
DecodeEntries(sn, i, zeroValue) ==
    IF i > Len(sn.Key) THEN [st |-> "ok", Key |-> <<>>, Value |-> <<>>]
    ELSE Bind(defaultUnmarshal(sn.Key[i]), LAMBDA k :
         Bind(IF zeroValue = "nil" THEN [st |-> "ok", v |-> NilValue]
              ELSE defaultUnmarshal(sn.Value[i]), LAMBDA v :
            IF k.st # "ok" \/ v.st # "ok"
            THEN [st |-> "error", Key |-> <<>>, Value |-> <<>>]
            ELSE Bind(DecodeEntries(sn, i + 1, zeroValue), LAMBDA rest :
                 IF rest.st # "ok" THEN rest
                 ELSE [st |-> "ok", Key |-> <<k.v>> \o rest.Key,
                       Value |-> <<v.v>> \o rest.Value])))

DecodeLink(l) == IF l = <<>> THEN NilLink ELSE contentHash(l)

contentHashLoad(id, env) ==
    IF env.down \/ id \notin env.store
    THEN [st |-> "error", node |-> emptyNodePointer]
    ELSE Bind(id[1], LAMBDA sn :
         IF Len(sn.Key) # Len(sn.Value)
         THEN [st |-> "error", node |-> emptyNodePointer]
         ELSE Bind(DecodeEntries(sn, 1, env.zeroValue), LAMBDA e :
              IF e.st # "ok" THEN [st |-> "error", node |-> emptyNodePointer]
              ELSE IF Len(sn.Link) > Len(sn.Key) + 1
                   THEN [st |-> "panic", node |-> emptyNodePointer]
                   ELSE [st |-> "ok",
                         node |-> mastNode(e.Key, e.Value,
                            [j \in 1..(Len(sn.Key) + 1) |->
                                IF j <= Len(sn.Link) THEN DecodeLink(sn.Link[j])
                                ELSE NilLink])]))

\* Mast.load: dispatches on the link; a nil link has no Load method.
load(link, env) ==
    IF link.t = "nil" THEN [st |-> "panic", node |-> emptyNodePointer]
    ELSE IF link.t = "node" THEN [st |-> "ok", node |-> link.n]
    ELSE contentHashLoad(link.id, env)

\* ------------------------------------------------------------ find
\* Insertion point of key in a node (0-based, as in the code).
findIndex(node, key) ==
    Cardinality({j \in 1..Len(node.Key) : keyOrder(node.Key[j], key) < 0})

FindResult(st, node, i, cur, path) ==
    [st |-> st, node |-> node, i |-> i, currentHeight |-> cur, path |-> path]

\* findNode: descend to targetLayer recording the path of (node, linkIdx).
RECURSIVE findNode(_, _, _, _, _, _, _)
findNode(node, key, targetLayer, currentHeight, createMissingNodes, path, env) ==
    Bind(findIndex(node, key), LAMBDA i :
    Bind(Append(path, [node |-> node, linkIdx |-> i]), LAMBDA path2 :
       IF currentHeight = targetLayer
       THEN FindResult("ok", node, i, currentHeight, path2)
       ELSE IF node.Link[i + 1] = NilLink
            THEN IF createMissingNodes
                 THEN findNode(emptyNodePointer, key, targetLayer,
                               currentHeight - 1, createMissingNodes, path2, env)
                 ELSE FindResult("ok", node, i, currentHeight, path2)
            ELSE Bind(load(node.Link[i + 1], env), LAMBDA r :
                 IF r.st # "ok"
                 THEN FindResult(r.st, node, i, currentHeight, path2)
                 ELSE findNode(r.node, key, targetLayer, currentHeight - 1,
                               createMissingNodes, path2, env))))

\* The link that replaces a node in its parent: nil for an empty node.
linkFor(node) == IF isEmpty(node) THEN NilLink ELSE store(node).link

\* savePathForRoot: walk the path from its tail to the root, putting each
\* new node into a copy of its parent; returns the new root link.
RECURSIVE savePathFrom(_, _, _)
savePathFrom(path, n, node) ==
    IF n = 1 THEN linkFor(node)
    ELSE savePathFrom(path, n - 1,
            [path[n - 1].node EXCEPT !.Link[path[n - 1].linkIdx + 1] = linkFor(node)])

savePathForRoot(path) == savePathFrom(path, Len(path), path[Len(path)].node)

\* ------------------------------------------------------------ split / merge
SplitResult(st, l, r) == [st |-> st, left |-> l, right |-> r]

\* split: entries below the key go left, entries above go right, the child
\* that straddles the key is split recursively.
RECURSIVE split(_, _, _)
split(node, key, env) ==
    Bind(findIndex(node, key), LAMBDA i :
    Bind(Len(node.Key), LAMBDA n :
    Bind(node.Link[i + 1], LAMBDA child :
    Bind(IF child = NilLink THEN SplitResult("ok", NilLink, NilLink)
         ELSE Bind(load(child, env), LAMBDA ld :
                   IF ld.st # "ok" THEN SplitResult(ld.st, NilLink, NilLink)
                   ELSE split(ld.node, key, env)), LAMBDA sub :
       IF sub.st # "ok" THEN sub
       ELSE SplitResult("ok",
              linkFor(mastNode(SubSeq(node.Key, 1, i), SubSeq(node.Value, 1, i),
                               Append(SubSeq(node.Link, 1, i), sub.left))),
              linkFor(mastNode(SubSeq(node.Key, i + 1, n), SubSeq(node.Value, i + 1, n),
                               <<sub.right>> \o SubSeq(node.Link, i + 2, n + 1))))))))

MergeResult(st, l) == [st |-> st, link |-> l]

\* mergeNodes: concatenate two neighbouring subtrees, merging the pair of
\* inner children that meet in the middle.
RECURSIVE mergeNodes(_, _, _)
mergeNodes(leftLink, rightLink, env) ==
    IF leftLink = NilLink THEN MergeResult("ok", rightLink)
    ELSE IF rightLink = NilLink THEN MergeResult("ok", leftLink)
    ELSE Bind(load(leftLink, env), LAMBDA l :
         Bind(load(rightLink, env), LAMBDA r :
            IF l.st # "ok" THEN MergeResult(l.st, NilLink)
            ELSE IF r.st # "ok" THEN MergeResult(r.st, NilLink)
            ELSE Bind(Len(l.node.Key), LAMBDA nl :
                 Bind(Len(r.node.Key), LAMBDA nr :
                 Bind(mergeNodes(l.node.Link[nl + 1], r.node.Link[1], env), LAMBDA inner :
                    IF inner.st # "ok" THEN inner
                    ELSE MergeResult("ok",
                           linkFor(mastNode(l.node.Key \o r.node.Key,
                                            l.node.Value \o r.node.Value,
                                            SubSeq(l.node.Link, 1, nl) \o <<inner.link>>
                                              \o SubSeq(r.node.Link, 2, nr + 1)))))))))

\* ------------------------------------------------------------ the tree
\* The Mast handle. persist: a Persist is configured; zeroValue: "nil" when
\* no ValuesLike prototype is configured, "int" otherwise.
Mast(root, size, height, bf, grow, shrink, persist, zeroValue) ==
    [root |-> root, size |-> size, height |-> height, branchFactor |-> bf,
     growAfterSize |-> grow, shrinkBelowSize |-> shrink,
     persist |-> persist, zeroValue |-> zeroValue]

NewInMemory ==
    Mast(InlineLink(emptyNodePointer), 0, 0, DefaultBranchFactor,
         DefaultBranchFactor, 1, FALSE, "nil")

\* Root handle; a nil Link pointer is the empty tuple.
Root(link, size, height, bf) ==
    [Link |-> link, Size |-> size, Height |-> height, BranchFactor |-> bf]

NewRoot(bf) == Root(<<>>, 0, 0, IF bf > 0 THEN bf ELSE DefaultBranchFactor)

RECURSIVE Pow(_, _)
Pow(b, e) == IF e = 0 THEN 1 ELSE b * Pow(b, e - 1)

OpResult(st, m) == [st |-> st, m |-> m]

\* canGrow: the node holds an entry whose layer exceeds the given height.
canGrow(node, height, bf) ==
    \E j \in 1..Len(node.Key) : defaultLayer(node.Key[j], bf) > height

\* Entries and links of the old root between two promoted entries a and b.
growSegment(node, a, b) ==
    linkFor(mastNode(SubSeq(node.Key, a + 1, b - 1), SubSeq(node.Value, a + 1, b - 1),
                     SubSeq(node.Link, a + 1, b)))

RECURSIVE growLinks(_, _, _, _)
growLinks(node, promoted, a, j) ==
    IF j > Len(node.Key) + 1 \/ ~(\E q \in promoted : q >= j)
    THEN <<growSegment(node, a, Len(node.Key) + 1)>>
    ELSE LET b == CHOOSE q \in promoted : q >= j /\ \A q2 \in promoted : q2 >= j => q <= q2
         IN <<growSegment(node, a, b)>> \o growLinks(node, promoted, b, b + 1)

RECURSIVE SelectIdx(_, _, _)
SelectIdx(seq, idx, j) ==
    IF j > Len(seq) THEN <<>>
    ELSE (IF j \in idx THEN <<seq[j]>> ELSE <<>>) \o SelectIdx(seq, idx, j + 1)

\* grow: a new root one level up keeps the entries whose layer exceeds the
\* old height; the rest of the old root becomes its children.
grow(m, env) ==
    Bind(load(m.root, env), LAMBDA r :
    IF r.st # "ok" THEN OpResult(r.st, m)
    ELSE Bind(r.node, LAMBDA node :
         Bind({j \in 1..Len(node.Key) :
                 defaultLayer(node.Key[j], m.branchFactor) > m.height}, LAMBDA promoted :
         Bind(mastNode(SelectIdx(node.Key, promoted, 1),
                       SelectIdx(node.Value, promoted, 1),
                       growLinks(node, promoted, 0, 1)), LAMBDA newRoot :
            OpResult("ok", [m EXCEPT !.root = linkFor(newRoot),
                                     !.height = m.height + 1,
                                     !.growAfterSize = m.growAfterSize * m.branchFactor,
                                     !.shrinkBelowSize = m.shrinkBelowSize * m.branchFactor])))))

\* The children of the old root folded, with its entries, into one node.
RECURSIVE shrinkFold(_, _, _)
shrinkFold(node, j, env) ==
    Bind(node.Link[j], LAMBDA l :
    Bind(IF l = NilLink THEN [st |-> "ok", node |-> emptyNodePointer] ELSE load(l, env),
         LAMBDA c :
       IF c.st # "ok" THEN [st |-> c.st, node |-> emptyNodePointer]
       ELSE IF j = Len(node.Link) THEN c
       ELSE Bind(shrinkFold(node, j + 1, env), LAMBDA rest :
            IF rest.st # "ok" THEN rest
            ELSE [st |-> "ok",
                  node |-> mastNode(c.node.Key \o <<node.Key[j]>> \o rest.node.Key,
                                    c.node.Value \o <<node.Value[j]>> \o rest.node.Value,
                                    c.node.Link \o rest.node.Link)])))

\* Mutant of shrink: the height is lowered over the root as it is.
shrinkNoFold(m, env) ==
    OpResult("ok", [m EXCEPT !.height = m.height - 1,
                             !.growAfterSize = m.growAfterSize \div m.branchFactor,
                             !.shrinkBelowSize = m.shrinkBelowSize \div m.branchFactor])

\* shrink: the root's entries are folded down into a node one level lower.
shrink(m, env) ==
    Bind(load(m.root, env), LAMBDA r :
    IF r.st # "ok" THEN OpResult(r.st, m)
    ELSE Bind(shrinkFold(r.node, 1, env), LAMBDA f :
         IF f.st # "ok" THEN OpResult(f.st, m)
         ELSE OpResult("ok", [m EXCEPT !.root = linkFor(f.node),
                                       !.height = m.height - 1,
                                       !.growAfterSize = m.growAfterSize \div m.branchFactor,
                                       !.shrinkBelowSize = m.shrinkBelowSize \div m.branchFactor])))

\* ------------------------------------------------------------ uint64 size
\* The size counter is a uint64; the value 2^64 - 1 it wraps to is written -1.
Dec64(x) == IF x = 0 THEN 0 - 1 ELSE x - 1

Less64(a, b) == IF a < 0 THEN FALSE ELSE a < b

\* ------------------------------------------------------------ Get
GetResult(st, found, value) == [st |-> st, found |-> found, value |-> value]

Get(m, k, env) ==
    IF m.root = NilLink THEN GetResult("ok", FALSE, NilValue)
    ELSE Bind(load(m.root, env), LAMBDA r :
    IF r.st # "ok" THEN GetResult(r.st, FALSE, NilValue)
    ELSE Bind(uint8min(defaultLayer(k, m.branchFactor), m.height), LAMBDA targetLayer :
         Bind(findNode(r.node, k, targetLayer, m.height, FALSE, <<>>, env), LAMBDA f :
            IF f.st # "ok" THEN GetResult(f.st, FALSE, NilValue)
            ELSE IF f.i >= Len(f.node.Key) \/ targetLayer # f.currentHeight
                 THEN GetResult("ok", FALSE, NilValue)
            ELSE IF keyOrder(f.node.Key[f.i + 1], k) # 0
                 THEN GetResult("ok", FALSE, NilValue)
            ELSE GetResult("ok", TRUE, f.node.Value[f.i + 1]))))

\* ------------------------------------------------------------ Insert
\* The grow loop of Insert; path0 is options.path[0].node.
RECURSIVE growLoop(_, _, _)
growLoop(m, path0, env) ==
    IF Less64(m.size, m.growAfterSize) THEN OpResult("ok", m)
    ELSE IF ~canGrow(path0, m.height, m.branchFactor) THEN OpResult("ok", m)
    ELSE Bind(grow(m, env), LAMBDA g :
         IF g.st # "ok" THEN g ELSE growLoop(g.m, path0, env))

SetTail(path, node) == [path EXCEPT ![Len(path)].node = node]

\* Mutant of InsertAt: the new element is appended instead of put at i.
InsertAtAppend(seq, i, x) == Append(seq, x)

InsertAt(seq, i, x) == SubSeq(seq, 1, i) \o <<x>> \o SubSeq(seq, i + 1, Len(seq))

\* Mutant of replaceValue: the new value is lost.
replaceValueLost(node, i, value) == node

\* The copy of the node with the value of entry i replaced.
replaceValue(node, i, value) == [node EXCEPT !.Value[i + 1] = value]

\* Mutant of insertSplice: the halves of the split child change sides.
insertSpliceSwapped(node, i, key, value, leftLink, rightLink) ==
    mastNode(SubSeq(node.Key, 1, i) \o <<key>> \o SubSeq(node.Key, i + 1, Len(node.Key)),
             SubSeq(node.Value, 1, i) \o <<value>> \o SubSeq(node.Value, i + 1, Len(node.Value)),
             SubSeq(node.Link, 1, i) \o <<rightLink, leftLink>>
               \o SubSeq(node.Link, i + 2, Len(node.Link)))

\* The new node of Insert: the entry spliced in at i, the split halves of
\* the child at i on either side of it.
insertSplice(node, i, key, value, leftLink, rightLink) ==
    mastNode(InsertAt(node.Key, i, key), InsertAt(node.Value, i, value),
             SubSeq(node.Link, 1, i) \o <<leftLink, rightLink>>
               \o SubSeq(node.Link, i + 2, Len(node.Link)))

Insert(m, key, value, env) ==
    Bind(uint8min(defaultLayer(key, m.branchFactor), m.height), LAMBDA targetLayer :
    Bind(load(m.root, env), LAMBDA r :
    IF r.st # "ok" THEN OpResult(r.st, m)
    ELSE Bind(findNode(r.node, key, targetLayer, m.height, TRUE, <<>>, env), LAMBDA f :
    IF f.st # "ok" THEN OpResult(f.st, m)
    ELSE IF targetLayer # f.currentHeight THEN OpResult("panic", m)
    ELSE Bind(f.node, LAMBDA node :
         Bind(f.i, LAMBDA i :
    IF i < Len(node.Key) /\ keyOrder(node.Key[i + 1], key) = 0
    THEN IF node.Value[i + 1] = value THEN OpResult("ok", m)
         ELSE OpResult("ok",
                [m EXCEPT !.root = savePathForRoot(
                      SetTail(f.path, replaceValue(node, i, value)))])
    ELSE Bind(node.Link[i + 1], LAMBDA oldLink :
         Bind(IF oldLink = NilLink THEN SplitResult("ok", NilLink, NilLink)
              ELSE Bind(load(oldLink, env), LAMBDA ld :
                        IF ld.st # "ok" THEN SplitResult(ld.st, NilLink, NilLink)
                        ELSE split(ld.node, key, env)), LAMBDA sp :
            IF sp.st # "ok" THEN OpResult(sp.st, m)
            ELSE Bind(insertSplice(node, i, key, value, sp.left, sp.right), LAMBDA newNode :
                 Bind(savePathForRoot(SetTail(f.path, newNode)), LAMBDA newRoot :
                 Bind(growLoop([m EXCEPT !.root = newRoot], newRoot.n, env), LAMBDA g :
                    IF g.st # "ok" THEN g
                    ELSE OpResult("ok", [g.m EXCEPT !.size = g.m.size + 1])))))))))))

\* ------------------------------------------------------------ Delete
RECURSIVE shrinkLoop(_, _)
shrinkLoop(m, env) ==
    IF Less64(m.size, m.shrinkBelowSize) /\ m.height > 0
    THEN Bind(shrink(m, env), LAMBDA s :
         IF s.st # "ok" THEN s ELSE shrinkLoop(s.m, env))
    ELSE OpResult("ok", m)

RemoveAt(seq, i) == SubSeq(seq, 1, i) \o SubSeq(seq, i + 2, Len(seq))

\* Mutant of deleteSplice: the two links around the entry are both kept.
deleteSpliceKeepLinks(oldNode, i, mergedLink) ==
    mastNode(RemoveAt(oldNode.Key, i), RemoveAt(oldNode.Value, i), oldNode.Link)

\* The new node of Delete: entry i removed, the merged child in its place.
deleteSplice(oldNode, i, mergedLink) ==
    mastNode(RemoveAt(oldNode.Key, i), RemoveAt(oldNode.Value, i),
             SubSeq(oldNode.Link, 1, i) \o <<mergedLink>>
               \o SubSeq(oldNode.Link, i + 3, Len(oldNode.Link)))

\* Mutant of deleteFound: the stored value is not compared.
deleteFoundAnyValue(node, i, targetLayer, currentHeight, key, value) ==
    /\ ~(targetLayer # currentHeight \/ i = Len(node.Key))
    /\ keyOrder(node.Key[i + 1], key) = 0

\* The checks of Delete on the node found: the search landed on the key's
\* layer, on an entry with the given key and the given value.
deleteFound(node, i, targetLayer, currentHeight, key, value) ==
    /\ ~(targetLayer # currentHeight \/ i = Len(node.Key))
    /\ keyOrder(node.Key[i + 1], key) = 0
    /\ ~(node.Value[i + 1] # value)

Delete(m, key, value, env) ==
    IF m.root = NilLink THEN OpResult("error", m)
    ELSE Bind(load(m.root, env), LAMBDA r :
    IF r.st # "ok" THEN OpResult(r.st, m)
    ELSE Bind(uint8min(defaultLayer(key, m.branchFactor), m.height), LAMBDA targetLayer :
         Bind(findNode(r.node, key, targetLayer, m.height, FALSE, <<>>, env), LAMBDA f :
    IF f.st # "ok" THEN OpResult(f.st, m)
    ELSE IF ~deleteFound(f.node, f.i, targetLayer, f.currentHeight, key, value)
         THEN OpResult("error", m)
    ELSE Bind(f.node, LAMBDA oldNode :
         Bind(f.i, LAMBDA i :
         Bind(mergeNodes(oldNode.Link[i + 1], oldNode.Link[i + 2], env), LAMBDA mg :
            IF mg.st # "ok" THEN OpResult(mg.st, m)
            ELSE Bind(deleteSplice(oldNode, i, mg.link), LAMBDA node :
                 shrinkLoop([m EXCEPT !.root = savePathForRoot(SetTail(f.path, node)),
                                      !.size = Dec64(m.size)], env))))))))

\* ------------------------------------------------------------ Iter
IterResult(st, entries) == [st |-> st, entries |-> entries]

\* iter: in-order walk; each child is loaded, then the entry after it emitted.
\* The entries of a walk that fails are those the callback received before
\* the failure.
RECURSIVE iterFrom(_, _, _)
iterFrom(node, j, env) ==
    Bind(node.Link[j], LAMBDA l :
    Bind(IF l = NilLink THEN IterResult("ok", <<>>)
         ELSE Bind(load(l, env), LAMBDA c :
                   IF c.st # "ok" THEN IterResult(c.st, <<>>)
                   ELSE iterFrom(c.node, 1, env)), LAMBDA sub :
       IF sub.st # "ok" THEN sub
       ELSE IF j > Len(node.Key) THEN sub
       ELSE Bind(iterFrom(node, j + 1, env), LAMBDA rest :
            IterResult(rest.st,
                    sub.entries \o <<<<node.Key[j], node.Value[j]>>>> \o rest.entries))))

Iter(m, env) ==
    Bind(load(m.root, env), LAMBDA r :
    IF r.st # "ok" THEN IterResult(r.st, <<>>) ELSE iterFrom(r.node, 1, env))

\* The zero entry{nil, nil} a slice is made of.
ZeroEntry == <<NilValue, NilValue>>

\* toSlice: make([]entry, m.size), which panics on a wrapped size, then Iter
\* writing array[i] for each entry it emits: an entry beyond the slice is an
\* index out of range, raised as it is emitted. The slice returned has
\* m.size entries, zero entries after the emitted ones.
toSlice(m, env) ==
    IF m.size < 0 THEN IterResult("panic", <<>>)
    ELSE Bind(Iter(m, env), LAMBDA it :
         IF Len(it.entries) > m.size THEN IterResult("panic", <<>>)
         ELSE IF it.st # "ok" THEN IterResult(it.st, <<>>)
         ELSE IterResult("ok",
                 it.entries \o [j \in 1..(m.size - Len(it.entries)) |-> ZeroEntry]))

Size(m) == m.size

\* ------------------------------------------------------------ flush
StoreResult(st, id, stored) == [st |-> st, id |-> id, stored |-> stored]

\* node.store: children first, each inline child replaced by its content
\* hash; the node is then serialized and stored under the hash of its bytes.
RECURSIVE nodeStore(_, _)
RECURSIVE storeLinks(_, _, _)
storeLinks(node, j, env) ==
    IF j > Len(node.Link) THEN [st |-> "ok", ids |-> <<>>, stored |-> {}]
    ELSE Bind(node.Link[j], LAMBDA l :
         Bind(IF l.t = "nil" THEN StoreResult("ok", <<>>, {})
              ELSE IF l.t = "hash" THEN StoreResult("ok", l.id, {})
              ELSE nodeStore(l.n, env), LAMBDA c :
            IF c.st # "ok" THEN [st |-> c.st, ids |-> <<>>, stored |-> {}]
            ELSE Bind(storeLinks(node, j + 1, env), LAMBDA rest :
                 IF rest.st # "ok" THEN rest
                 ELSE [st |-> "ok", ids |-> <<c.id>> \o rest.ids,
                       stored |-> c.stored \cup rest.stored])))

nodeStore(node, env) ==
    Bind(storeLinks(node, 1, env), LAMBDA ls :
    IF ls.st # "ok" THEN StoreResult(ls.st, <<>>, {})
    ELSE IF env.down THEN StoreResult("error", <<>>, {})
    ELSE Bind([Key |-> [j \in 1..Len(node.Key) |-> defaultMarshal(node.Key[j])],
               Value |-> [j \in 1..Len(node.Value) |-> defaultMarshal(node.Value[j])],
               Link |-> IF \A j \in 1..Len(ls.ids) : ls.ids[j] = <<>>
                        THEN <<>> ELSE ls.ids], LAMBDA sn :
         StoreResult("ok", <<sn>>, ls.stored \cup {<<sn>>})))

FlushResult(st, m, id, stored) == [st |-> st, m |-> m, id |-> id, stored |-> stored]

flush(m, env) ==
    IF ~m.persist THEN FlushResult("error", m, <<>>, {})
    ELSE Bind(load(m.root, env), LAMBDA r :
    IF r.st # "ok" THEN FlushResult(r.st, m, <<>>, {})
    ELSE Bind(nodeStore(r.node, env), LAMBDA s :
         IF s.st # "ok" THEN FlushResult(s.st, m, <<>>, {})
         ELSE FlushResult("ok", [m EXCEPT !.root = contentHash(s.id)], s.id, s.stored)))

\* MakeRoot: flush, then the Root handle {&link, size, height, branchFactor}.
\* The Link pointer is never nil: it is written <<id>>.
MakeRoot(m, env) ==
    Bind(flush(m, env), LAMBDA fl :
    [st |-> fl.st, m |-> fl.m, stored |-> fl.stored,
     root |-> Root(<<fl.id>>, fl.m.size, fl.m.height, fl.m.branchFactor)])

\* ------------------------------------------------------------ LoadMast
\* checkRoot: the root must load.
checkRoot(m, env) == load(m.root, env).st

\* LoadMast: the Mast literal names no size, so the loaded tree starts with
\* size 0 whatever r.Size is.
LoadMast(r, zeroValue, env) ==
    LET link == IF r.Link # <<>> THEN contentHash(r.Link[1])
                ELSE InlineLink(emptyNodePointer)
        shrinkSize == Pow(r.BranchFactor, r.Height)
        m == Mast(link, 0, r.Height, r.BranchFactor,
                  shrinkSize * r.BranchFactor, shrinkSize, TRUE, zeroValue)
    IN OpResult(checkRoot(m, [env EXCEPT !.zeroValue = zeroValue]), m)

\* ------------------------------------------------------------ state
\* m      the tree handle the program holds
\* pstore the ids held by the Persist store
\* pub    the Root handles published by MakeRoot, each with the entries the
\*        tree held and the answers Get gave when it was published, and the
\*        answers the tree loaded from it gave then (the latest one is kept)
\* last   the last public call: its name and outcome
\* flushes the number of MakeRoot calls that wrote new nodes
VARIABLES m, pstore, pub, last, flushes

vars == <<m, pstore, pub, last, flushes>>

Env(down) == [store |-> pstore, down |-> down, zeroValue |-> m.zeroValue]

Call(op, st) == [op |-> op, st |-> st]

Downs(t) == IF t.persist THEN BOOLEAN ELSE {FALSE}

\* The value arguments given to Delete: a stored value, or nil, which is
\* what a tree loaded without ValuesLike holds.
DeleteValues == Values \cup {NilValue}

Init ==
    /\ m \in {NewInMemory}
             \cup {LoadMast(NewRoot(bf), zv, [store |-> {}, down |-> FALSE, zeroValue |-> zv]).m :
                      bf \in {OptBranchFactor}, zv \in {"nil", "int"}}
    /\ pstore = {}
    /\ pub = <<>>
    /\ last = Call("New", "ok")
    /\ flushes = 0

\* What the tree loaded from a Root answers to Iter, Get and Size.
Answers(r, zeroValue, env) ==
    Bind(LoadMast(r, zeroValue, env), LAMBDA a :
        [st |-> a.st, iter |-> Iter(a.m, env),
         gets |-> [k \in Keys |-> Get(a.m, k, env)], size |-> Size(a.m)])

DoInsert(k, v, down) ==
    \E r \in {Insert(m, k, v, Env(down))} :
    /\ m' = r.m
    /\ last' = Call("Insert", r.st)
    /\ UNCHANGED <<pstore, pub, flushes>>

DoDelete(k, v, down) ==
    \E r \in {Delete(m, k, v, Env(down))} :
    /\ m' = r.m
    /\ last' = Call("Delete", r.st)
    /\ UNCHANGED <<pstore, pub, flushes>>

DoMakeRoot(down) ==
    /\ m.root.t = "hash" \/ flushes < MaxFlush
    /\ \E r \in {MakeRoot(m, Env(down))} :
       /\ m' = r.m
       /\ pstore' = pstore \cup r.stored
       /\ pub' = IF r.st = "ok"
                 THEN <<[root |-> r.root, entries |-> Iter(m, Env(FALSE)).entries,
                         gets |-> [k \in Keys |-> Get(m, k, Env(FALSE))],
                         version |-> Answers(r.root, m.zeroValue,
                                        [Env(FALSE) EXCEPT !.store = pstore \cup r.stored])]>>
                 ELSE pub
       /\ flushes' = IF r.st = "ok" /\ m.root.t # "hash" THEN flushes + 1 ELSE flushes
       /\ last' = Call("MakeRoot", r.st)

DoLoadMast(down) ==
    /\ pub # <<>>
    /\ \E r \in {LoadMast(pub[1].root, m.zeroValue, Env(down))} :
       /\ m' = IF r.st = "ok" THEN r.m ELSE m
       /\ last' = Call("LoadMast", r.st)
    /\ UNCHANGED <<pstore, pub, flushes>>

Next ==
    \/ \E k \in Keys, v \in Values, down \in Downs(m) : DoInsert(k, v, down)
    \/ \E k \in Keys, v \in DeleteValues, down \in Downs(m) : DoDelete(k, v, down)
    \/ \E down \in Downs(m) : DoMakeRoot(down)
    \/ \E down \in Downs(m) : DoLoadMast(down)

Spec == Init /\ [][Next]_vars

\* ------------------------------------------------------------ observation
\* Reads made between calls, with the Persist store answering.
Obs == Env(FALSE)

\* The entries of a tree in iteration order; a nil root holds none.
Contents(t, env) == IF t.root = NilLink THEN <<>> ELSE Iter(t, env).entries

Present(t, k, env) == Get(t, k, env).found

\* ------------------------------------------------------------ claims
\* C1: immediately after a successful Insert(k, v), Get(k) returns (true, v);
\* immediately after a successful Delete(k, v), Get(k) returns false; Get of
\* every other key returns what it returned before the call.
C1_GetAfterInsertDelete ==
    \A k \in Keys, down \in Downs(m) :
        /\ \A v \in Values : \A r \in {Insert(m, k, v, Env(down))} :
              r.st = "ok" =>
                 /\ Get(r.m, k, Obs) = GetResult("ok", TRUE, v)
                 /\ \A k2 \in Keys \ {k} : Get(r.m, k2, Obs) = Get(m, k2, Obs)
        /\ \A v \in DeleteValues : \A r \in {Delete(m, k, v, Env(down))} :
              r.st = "ok" =>
                 /\ Get(r.m, k, Obs) = GetResult("ok", FALSE, NilValue)
                 /\ \A k2 \in Keys \ {k} : Get(r.m, k2, Obs) = Get(m, k2, Obs)

\* A tree of height 1 that three Inserts built and a Delete then changed.
C1_Witness ==
    /\ last = Call("Delete", "ok")
    /\ m.height = 1
    /\ m.size >= 2
    /\ \E k \in Keys : Get(m, k, Obs).found

\* C2: Size() is the number of successful Inserts of absent keys minus the
\* number of successful Deletes, and is the number of keys stored: every
\* call that is not one of these leaves the size alone.
C2_SizeIsInsertsMinusDeletes ==
    /\ m.size = Len(Contents(m, Obs))
    /\ \A k \in Keys, down \in Downs(m) :
        /\ \A v \in Values : \A r \in {Insert(m, k, v, Env(down))} :
              r.m.size = IF r.st = "ok" /\ ~Present(m, k, Obs)
                         THEN m.size + 1 ELSE m.size
        /\ \A v \in DeleteValues : \A r \in {Delete(m, k, v, Env(down))} :
              r.m.size = IF r.st = "ok" THEN m.size - 1 ELSE m.size

\* The outcome of flush on the tree and the root hash it returns.
RootHash(t, env) == Bind(flush(t, env), LAMBDA fl : [st |-> fl.st, id |-> fl.id])

\* A fresh empty tree with the branch factor and configuration of t.
Fresh(t) ==
    IF t.persist
    THEN LoadMast(NewRoot(t.branchFactor), t.zeroValue,
                  [store |-> {}, down |-> FALSE, zeroValue |-> t.zeroValue]).m
    ELSE NewInMemory

RECURSIVE InsertAll(_, _, _)
InsertAll(t, entries, env) ==
    IF entries = <<>> THEN t
    ELSE InsertAll(Insert(t, entries[1][1], entries[1][2], env).m, Tail(entries), env)

\* The tree built by inserting the entries of t, in ascending key order,
\* into a fresh tree.
Rebuilt(t, env) == InsertAll(Fresh(t), Contents(t, env), env)

\* Inserts of absent keys only: the orderings of an entry set.
NextIns ==
    \E k \in Keys, v \in Values : ~Present(m, k, Obs) /\ DoInsert(k, v, FALSE)

\* Fresh trees of every branch factor from OptBranchFactor to MaxBranchFactor.
InitIns ==
    /\ m \in {NewInMemory}
             \cup {LoadMast(NewRoot(bf), zv, [store |-> {}, down |-> FALSE, zeroValue |-> zv]).m :
                      bf \in OptBranchFactor..MaxBranchFactor, zv \in {"nil", "int"}}
    /\ pstore = {}
    /\ pub = <<>>
    /\ last = Call("New", "ok")
    /\ flushes = 0

SpecIns == InitIns /\ [][NextIns]_vars

\* C3: inserting an entry set in any order gives the height, the node
\* structure and the root hash that inserting it in ascending order gives.
C3_InsertOrderIrrelevant ==
    \A c \in {Rebuilt(m, Obs)} :
    /\ m.height = c.height
    /\ m.root = c.root
    /\ RootHash(m, Obs) = RootHash(c, Obs)

\* Four entries inserted, the tree grown to height 1.
C3_Witness ==
    /\ last = Call("Insert", "ok")
    /\ m.size = MaxKey
    /\ m.height = 1

\* C4: the height and root hash of a tree are those of the tree rebuilt
\* from its entries, whatever Inserts and Deletes produced it.
C4_ShapeFromContents ==
    \A c \in {Rebuilt(m, Obs)} :
        <<m.height, RootHash(m, Obs)>> = <<c.height, RootHash(c, Obs)>>

Ascending(entries) ==
    \A i \in 1..(Len(entries) - 1) : entries[i][1] < entries[i + 1][1]

InTree(t, k, v, env) ==
    \E c \in {Contents(t, env)} : \E i \in 1..Len(c) : c[i] = <<k, v>>

HasKey(t, k, env) ==
    \E c \in {Contents(t, env)} : \E i \in 1..Len(c) : c[i][1] = k

\* C5: Iter emits the entries in strictly ascending key order and emits
\* exactly Size() entries.
C5_IterAscendingSizeEntries ==
    \A it \in {Iter(m, Obs)} :
    /\ it.st = "ok"
    /\ Ascending(it.entries)
    /\ Len(it.entries) = Size(m)

\* C6: the tree loaded from a published Root iterates exactly the entries
\* the tree held when the Root was made, in ascending order, and Get
\* answers on it as it did on that tree.
C6_PersistRoundTrip ==
    last = Call("LoadMast", "ok") =>
        /\ Iter(m, Obs) = IterResult("ok", pub[1].entries)
        /\ Ascending(Iter(m, Obs).entries)
        /\ \A k \in Keys : Get(m, k, Obs) = pub[1].gets[k]

\* C7: MakeRoot called twice in a row returns the same Root, and MakeRoot
\* on the tree loaded from a Root returns that Root.
C7_FlushIdempotent ==
    \A r1 \in {MakeRoot(m, Obs)} :
    \A e1 \in {[Obs EXCEPT !.store = pstore \cup r1.stored]} :
    \A r2 \in {MakeRoot(r1.m, e1)}, a \in {LoadMast(r1.root, m.zeroValue, e1)} :
    \A r3 \in {MakeRoot(a.m, e1)} :
       r1.st = "ok" =>
          /\ r2.st = "ok" /\ r2.root = r1.root
          /\ a.st = "ok" /\ r3.st = "ok" /\ r3.root = r1.root

\* C8: Delete(key, value) returns an error and changes nothing when the key
\* is absent or stored with another value; it succeeds only on an entry
\* with that key and that value.
C8_DeleteAbsentOrMismatch ==
    \A k \in Keys, v \in DeleteValues, down \in Downs(m) :
        \A r \in {Delete(m, k, v, Env(down))} :
        /\ ~InTree(m, k, v, Obs) => r.st = "error" /\ r.m = m
        /\ r.st = "ok" => InTree(m, k, v, Obs)

\* A Delete refused on a tree of height 1 that holds entries.
C8_Witness ==
    /\ last = Call("Delete", "error")
    /\ m.height = 1
    /\ m.size >= 2
    /\ \E k \in Keys, v \in Values : HasKey(m, k, Obs) /\ ~InTree(m, k, v, Obs)

\* C9: a call of Insert, Delete or MakeRoot that returns an error leaves the
\* tree (root, size, height, thresholds) as it was before the call.
C9_FailureAtomic ==
    \A down \in Downs(m) :
        /\ \A r \in {MakeRoot(m, Env(down))} : r.st = "error" => r.m = m
        /\ \A k \in Keys :
              /\ \A v \in Values : \A r \in {Insert(m, k, v, Env(down))} :
                    r.st = "error" => r.m = m
              /\ \A v \in DeleteValues : \A r \in {Delete(m, k, v, Env(down))} :
                    r.st = "error" => r.m = m

\* The entries with the value of key k replaced by v.
WithValue(entries, k, v) ==
    [i \in 1..Len(entries) |-> IF entries[i][1] = k THEN <<k, v>> ELSE entries[i]]

\* C10: Insert on a key already present changes neither size nor height; with
\* the stored value it changes nothing at all, with another value only the
\* value of that key. Insert on an absent key adds 1 to the size.
C10_InsertReplaceOrAdd ==
    \A k \in Keys, v \in Values, down \in Downs(m) :
        \A r \in {Insert(m, k, v, Env(down))} :
        r.st = "ok" =>
           IF HasKey(m, k, Obs)
           THEN /\ r.m.size = m.size
                /\ r.m.height = m.height
                /\ InTree(m, k, v, Obs) => r.m = m
                /\ Contents(r.m, Obs) = WithValue(Contents(m, Obs), k, v)
           ELSE r.m.size = m.size + 1

\* An Insert on a tree of height 1 that holds the keys it held when its
\* Root was published, three or more, but not the values: the Insert
\* replaced a value.
C10_Witness ==
    /\ last = Call("Insert", "ok")
    /\ m.height = 1
    /\ m.root.t = "node"
    /\ pub # <<>>
    /\ Len(pub[1].entries) >= 3
    /\ \E c \in {Contents(m, Obs)} :
          /\ Len(c) = Len(pub[1].entries)
          /\ \A i \in 1..Len(c) : c[i][1] = pub[1].entries[i][1]
          /\ c # pub[1].entries

\* C11: MakeRoot on an empty tree with a Persist configured succeeds and
\* returns the Root {nil, 0, 0, branchFactor}; a Root returned by MakeRoot
\* has a nil Link exactly when the tree is empty.
C11_MakeRootEmptyNilLink ==
    m.persist =>
        \A r \in {MakeRoot(m, Obs)} :
            /\ m.size = 0 => r.st = "ok" /\ r.root = Root(<<>>, 0, 0, m.branchFactor)
            /\ r.st = "ok" => (r.root.Link = <<>> <=> m.size = 0)

\* ------------------------------------------------------------ memory
\* The memory the splices of Insert and Delete work on: a heap is a sequence
\* of cells, a cell being the backing array of a slice or a node struct
\* holding the addresses of its Key, Value and Link arrays.
HeapOf(node) ==
    <<node.Key, node.Value, node.Link, [Key |-> 1, Value |-> 2, Link |-> 3]>>

\* The node a struct address denotes.
NodeAt(heap, p) ==
    mastNode(heap[heap[p].Key], heap[heap[p].Value], heap[heap[p].Link])

\* Mutant of copy: the copy shares the arrays of the original.
copyShallow(heap, p) == [heap |-> Append(heap, heap[p]), p |-> Len(heap) + 1]

\* node.copy(): a new struct with new arrays of the same contents; the
\* child links are shared.
copy(heap, p) ==
    [heap |-> heap \o <<heap[heap[p].Key], heap[heap[p].Value], heap[heap[p].Link],
                        [Key |-> Len(heap) + 1, Value |-> Len(heap) + 2,
                         Link |-> Len(heap) + 3]>>,
     p |-> Len(heap) + 4]

\* Insert on a stored key: node = node.copy(); node.Value[i] = value.
goReplaceValue(heap, p, i, value) ==
    Bind(copy(heap, p), LAMBDA c :
        [heap |-> [c.heap EXCEPT ![c.heap[c.p].Value][i + 1] = value], p |-> c.p])

\* Insert of a new key: the copy gets three arrays made one longer, filled
\* from the old arrays around position i.
goInsertSplice(heap, p, i, key, value, leftLink, rightLink) ==
    Bind(copy(heap, p), LAMBDA c :
    Bind(c.heap[heap[p].Key], LAMBDA oldKeys :
    Bind(c.heap[c.heap[c.p].Value], LAMBDA oldValues :
    Bind(c.heap[c.heap[c.p].Link], LAMBDA oldLinks :
    Bind(Len(c.heap), LAMBDA a :
        [heap |-> [c.heap EXCEPT ![c.p] = [Key |-> a + 1, Value |-> a + 2, Link |-> a + 3]]
                  \o <<[j \in 1..(Len(oldKeys) + 1) |->
                           IF j <= i THEN oldKeys[j]
                           ELSE IF j = i + 1 THEN key ELSE oldKeys[j - 1]],
                       [j \in 1..(Len(oldValues) + 1) |->
                           IF j <= i THEN oldValues[j]
                           ELSE IF j = i + 1 THEN value ELSE oldValues[j - 1]],
                       [j \in 1..(Len(oldLinks) + 1) |->
                           IF j <= i THEN oldLinks[j]
                           ELSE IF j = i + 1 THEN leftLink
                           ELSE IF j = i + 2 THEN rightLink ELSE oldLinks[j - 1]]>>,
         p |-> c.p])))))

\* Delete: a new struct with new arrays; the entry at i left out, the two
\* links around it replaced by the merged link.
goDeleteSplice(heap, p, i, mergedLink) ==
    Bind(NodeAt(heap, p), LAMBDA oldNode :
    Bind(Len(heap), LAMBDA a :
        [heap |-> heap \o <<RemoveAt(oldNode.Key, i), RemoveAt(oldNode.Value, i),
                            [RemoveAt(oldNode.Link, i) EXCEPT ![i + 1] = mergedLink],
                            [Key |-> a + 1, Value |-> a + 2, Link |-> a + 3]>>,
         p |-> a + 4]))

\* No cell that existed in h0 differs in h1.
Frame(h0, h1) == Len(h1) >= Len(h0) /\ \A a \in 1..Len(h0) : h1[a] = h0[a]

\* The node Insert or Delete of key k works on, and the index in it.
Target(t, k, env) ==
    Bind(load(t.root, env), LAMBDA r :
        IF r.st # "ok" THEN FindResult(r.st, emptyNodePointer, 0, t.height, <<>>)
        ELSE findNode(r.node, k, uint8min(defaultLayer(k, t.branchFactor), t.height),
                      t.height, TRUE, <<>>, env))

\* C12: the splices of Insert and Delete write no cell of a node that existed
\* before the call and build the node the operation installs; the version
\* published by an earlier MakeRoot gives the Get, Iter and Size results it
\* gave when it was published, whatever Inserts and Deletes came after.
C12_PathCopyIsolation ==
    /\ pub # <<>> =>
          \A a \in {Answers(pub[1].root, m.zeroValue, Obs)} :
             /\ a.st = "ok"
             /\ a.iter.st = "ok"
             /\ a = pub[1].version
    /\ m.root # NilLink =>
          \A k \in Keys, v \in DeleteValues :
          \A f \in {Target(m, k, Obs)} :
             f.st = "ok" =>
                \A h0 \in {HeapOf(f.node)} :
                   IF f.i < Len(f.node.Key) /\ keyOrder(f.node.Key[f.i + 1], k) = 0
                   THEN /\ \A c \in {goReplaceValue(h0, 4, f.i, v)} :
                              /\ Frame(h0, c.heap)
                              /\ NodeAt(c.heap, c.p) = replaceValue(f.node, f.i, v)
                        /\ \A l \in {NilLink, f.node.Link[f.i + 1]} :
                           \A c \in {goDeleteSplice(h0, 4, f.i, l)} :
                              /\ Frame(h0, c.heap)
                              /\ NodeAt(c.heap, c.p) = deleteSplice(f.node, f.i, l)
                   ELSE \A l, r \in {NilLink, f.node.Link[f.i + 1]} :
                        \A c \in {goInsertSplice(h0, 4, f.i, k, v, l, r)} :
                              /\ Frame(h0, c.heap)
                              /\ NodeAt(c.heap, c.p) = insertSplice(f.node, f.i, k, v, l, r)

\* Inserts and Deletes made on a tree of height 1 after its Root was
\* published: the tree no longer holds the published entries.
C12_Witness ==
    /\ last = Call("Delete", "ok")
    /\ pub # <<>>
    /\ m.height = 1
    /\ m.root.t = "node"
    /\ Len(pub[1].entries) >= 3
    /\ Contents(m, Obs) # pub[1].entries

\* ------------------------------------------------------------ nodes
\* The nodes of a subtree, each with its height and the keys that bound it
\* (0 and MaxKey + 1 standing for no bound); a link that fails to load is
\* reported with its outcome.
RECURSIVE NodesUnder(_, _, _, _, _)
NodesUnder(link, height, lo, hi, env) ==
    Bind(load(link, env), LAMBDA c :
        IF c.st # "ok"
        THEN {[st |-> c.st, node |-> emptyNodePointer, height |-> height,
               lo |-> lo, hi |-> hi]}
        ELSE {[st |-> "ok", node |-> c.node, height |-> height, lo |-> lo, hi |-> hi]}
             \cup UNION {IF c.node.Link[j] = NilLink THEN {}
                         ELSE NodesUnder(c.node.Link[j], height - 1,
                                 IF j - 1 \in DOMAIN c.node.Key THEN c.node.Key[j - 1] ELSE lo,
                                 IF j \in DOMAIN c.node.Key THEN c.node.Key[j] ELSE hi, env) :
                         j \in 1..Len(c.node.Link)})

\* The nodes of a tree; a nil root has none.
AllNodes(t, env) ==
    IF t.root = NilLink THEN {} ELSE NodesUnder(t.root, t.height, 0, MaxKey + 1, env)

\* validateNode: the arrays agree in length, the keys ascend and lie
\* strictly between the bounds of the node.
validNode(n) ==
    /\ n.st = "ok"
    /\ Len(n.node.Key) = Len(n.node.Value)
    /\ Len(n.node.Link) = Len(n.node.Key) + 1
    /\ \A j \in 1..(Len(n.node.Key) - 1) : keyOrder(n.node.Key[j], n.node.Key[j + 1]) < 0
    /\ \A j \in 1..Len(n.node.Key) : n.lo < n.node.Key[j] /\ n.node.Key[j] < n.hi

\* C14: after every operation every node has as many values as keys and one
\* link more, its keys ascend strictly, and the keys under Link[i] lie
\* strictly between Key[i-1] and Key[i].
C14_NodesWellFormed ==
    \A n \in AllNodes(m, Obs) : validNode(n)

\* An Insert that left a root over two children or more.
C14_Witness ==
    /\ last = Call("Insert", "ok")
    /\ m.height = 1
    /\ Cardinality(AllNodes(m, Obs)) >= 3
    /\ \E n \in AllNodes(m, Obs) : n.height = 1 /\ Len(n.node.Key) >= 2

\* The height an entry belongs at in a tree of the given height.
effectiveHeight(key, t) == IF defaultLayer(key, t.branchFactor) < t.height
                           THEN defaultLayer(key, t.branchFactor) ELSE t.height

\* C15: after every operation every entry is stored in a node whose height
\* is min(layer(key), height of the tree), and Get finds every entry that
\* Iter emits.
C15_LayerPlacement ==
    /\ \A n \in AllNodes(m, Obs) :
          /\ n.st = "ok"
          /\ \A j \in 1..Len(n.node.Key) : effectiveHeight(n.node.Key[j], m) = n.height
    /\ \A c \in {Contents(m, Obs)} :
          \A j \in 1..Len(c) : Get(m, c[j][1], Obs) = GetResult("ok", TRUE, c[j][2])

\* A tree that grew to height 1 and holds entries at both heights, one of
\* them an entry whose layer exceeds the height.
C15_Witness ==
    /\ m.height = 1
    /\ \E n \in AllNodes(m, Obs) : n.height = 0 /\ Len(n.node.Key) >= 1
    /\ \E n \in AllNodes(m, Obs) :
          /\ n.height = 1
          /\ \E j \in 1..Len(n.node.Key) : defaultLayer(n.node.Key[j], m.branchFactor) > 1
          /\ \E j \in 1..Len(n.node.Key) : defaultLayer(n.node.Key[j], m.branchFactor) = 1

\* The tree is due to grow: its size has reached growAfterSize and its root
\* holds an entry whose layer exceeds the height.
dueToGrow(t, env) ==
    /\ t.root # NilLink
    /\ ~Less64(t.size, t.growAfterSize)
    /\ \A r \in {load(t.root, env)} :
          r.st = "ok" /\ canGrow(r.node, t.height, t.branchFactor)

\* C16: Insert of a new key counts the key before it tests for growth: when
\* it returns the tree is not due to grow.
C16_GrowAfterIncrement ==
    \A k \in Keys, v \in Values, down \in Downs(m) :
    \A r \in {Insert(m, k, v, Env(down))} :
        (r.st = "ok" /\ ~Present(m, k, Obs)) => ~dueToGrow(r.m, Obs)

\* C17: in every reachable state the root link is nil exactly when the size
\* is 0, and Insert into a tree emptied by deletes succeeds.
C17_RootNilIffEmpty ==
    /\ m.root = NilLink <=> m.size = 0
    /\ (m.size = 0 /\ last.op = "Delete") =>
          \A k \in Keys, v \in Values : Insert(m, k, v, Obs).st = "ok"

\* C18: after every operation every node holds at most branchFactor - 1
\* entries, and a node without entries is the empty root of a tree of
\* height 0.
C18_NodeEntryCount ==
    \A n \in AllNodes(m, Obs) :
        /\ n.st = "ok"
        /\ Len(n.node.Key) <= m.branchFactor - 1
        /\ Len(n.node.Key) = 0 =>
              m.height = 0 /\ isEmpty(n.node) /\ m.size = 0

\* ------------------------------------------------------------ stored bytes
\* The serialized nodes a Persist store may answer with, well formed or not:
\* Key and Value arrays of up to MaxBlobs blobs, a blob being the text of a
\* number or a text that is no number, and a Link array of up to
\* MaxBlobs + 2 strings, each empty or a content hash.
MaxBlobs == 2

Blobs == {"1", "x"}

SeqsUpTo(S, n) == UNION {[1..k -> S] : k \in 0..n}

LinkStrings == {<<>>, <<[Key |-> <<>>, Value |-> <<>>, Link |-> <<>>]>>}

SerializedNodes ==
    {[Key |-> k, Value |-> v, Link |-> l] :
        k \in SeqsUpTo(Blobs, MaxBlobs), v \in SeqsUpTo(Blobs, MaxBlobs),
        l \in SeqsUpTo(LinkStrings, MaxBlobs + 2)}

\* A store holding one serialized node, and a tree about to be loaded.
InitLoad ==
    /\ m \in {LoadMast(NewRoot(OptBranchFactor), zv,
                       [store |-> {}, down |-> FALSE, zeroValue |-> zv]).m :
                 zv \in {"nil", "int"}}
    /\ pstore \in {{<<sn>>} : sn \in SerializedNodes}
    /\ pub = <<>>
    /\ last = Call("New", "ok")
    /\ flushes = 0

\* LoadMast of a Root naming a stored node: checkRoot loads it.
DoLoadRoot(id, down) ==
    /\ last = Call("New", "ok")
    /\ \E r \in {LoadMast(Root(<<id>>, 0, 0, m.branchFactor), m.zeroValue, Env(down))} :
       /\ m' = IF r.st = "ok" THEN r.m ELSE m
       /\ last' = Call("LoadMast", r.st)
    /\ UNCHANGED <<pstore, pub, flushes>>

NextLoad == \E id \in pstore, down \in BOOLEAN : DoLoadRoot(id, down)

SpecLoad == InitLoad /\ [][NextLoad]_vars

\* C19: for every serialized node the store answers with, contentHash.Load
\* returns an error or a node with as many values as keys and one link
\* more, an empty link string being nil; it returns an error when the Key
\* and Value arrays differ in length, and it never aborts.
C19_LoadNeverAborts ==
    \A id \in pstore :
    \A r \in {contentHashLoad(id, Obs)} :
        /\ r.st \in {"ok", "error"}
        /\ Len(id[1].Key) # Len(id[1].Value) => r.st = "error"
        /\ r.st = "ok" =>
              /\ Len(r.node.Key) = Len(r.node.Value)
              /\ Len(r.node.Link) = Len(r.node.Key) + 1
              /\ \A j \in 1..Len(id[1].Link) :
                    id[1].Link[j] = <<>> => r.node.Link[j] = NilLink

\* C20: the size counter never wraps: it is the number of entries in every
\* reachable state, a Delete that removes an entry runs with size >= 1, and
\* the size it leaves is the number of entries remaining.
C20_SizeNeverWraps ==
    /\ m.size >= 0
    /\ m.size = Len(Contents(m, Obs))
    /\ \A k \in Keys, v \in DeleteValues, down \in Downs(m) :
       \A r \in {Delete(m, k, v, Env(down))} :
          /\ r.m.size >= 0
          /\ (r.st = "ok" \/ r.m.size # m.size) =>
                /\ m.size >= 1
                /\ r.m.size = m.size - 1
                /\ r.m.size = Len(Contents(r.m, Obs))

====
